---- MODULE Spec2Model ----
(***************************************************************************)
(* Model of src/src/parallel_search.py (ParallelSearchService) and of      *)
(* src/src/exa_search_adapter.py / src/src/exa_search.py, the provider     *)
(* that ships with it; and of FinnhubFetcher._convert_stock_code of        *)
(* src/data_provider/finnhub_fetcher.py.                                   *)
(*                                                                         *)
(* Text values (titles, URLs) are sequences of one-character strings, so   *)
(* that str.strip() and str.lower() are computed and not assumed.          *)
(***************************************************************************)
EXTENDS Integers, Sequences, FiniteSets, TLC

(***************************************************************************)
(* Bounds of the model.                                                    *)
(***************************************************************************)
MaxQueries == 2
MaxItems == 2
MaxCap == 3
RotThreads == 3
MaxCodeLen == 5

(***************************************************************************)
(* Python helpers.                                                         *)
(***************************************************************************)
\* dict.get(key, default)
Get(d, k, default) == IF k \in DOMAIN d THEN d[k] ELSE default

IsSpace(c) == c \in {" ", "\t"}

RECURSIVE LStrip(_)
LStrip(s) ==
    IF s = <<>> THEN s
    ELSE IF IsSpace(Head(s)) THEN LStrip(Tail(s)) ELSE s

RECURSIVE RStrip(_)
RStrip(s) ==
    IF s = <<>> THEN s
    ELSE IF IsSpace(s[Len(s)]) THEN RStrip(SubSeq(s, 1, Len(s) - 1)) ELSE s

\* str.strip()
Strip(s) == RStrip(LStrip(s))

SliceToWhole(s, n) == s

\* seq[:n], negative n counted from the end
SliceTo(s, n) ==
    IF n >= 0
    THEN SubSeq(s, 1, IF n < Len(s) THEN n ELSE Len(s))
    ELSE SubSeq(s, 1, IF Len(s) + n > 0 THEN Len(s) + n ELSE 0)

RECURSIVE CollectItemsReversed(_)
CollectItemsReversed(results) ==
    IF results = <<>> THEN <<>>
    ELSE CollectItemsReversed(Tail(results))
            \o Get(Head(results), "results", <<>>)

\* all_items: the 'results' lists of the dicts, extended one after another
RECURSIVE CollectItems(_)
CollectItems(results) ==
    IF results = <<>> THEN <<>>
    ELSE Get(Head(results), "results", <<>>) \o CollectItems(Tail(results))

\* the key an item is deduplicated by: item.get('title', '').strip()
TitleKey(item) == Strip(Get(item, "title", <<>>))

\* the loop over all_items of _merge_results, from item i on
RECURSIVE DedupLoopNoSeen(_, _, _, _, _)
DedupLoopNoSeen(all_items, i, seen_titles, unique_items, max_results) ==
    IF i > Len(all_items) THEN unique_items
    ELSE LET title == TitleKey(all_items[i]) IN
         IF title # <<>>
         THEN LET kept == Append(unique_items, all_items[i]) IN
              IF Len(kept) >= max_results THEN kept
              ELSE DedupLoopNoSeen(all_items, i + 1, seen_titles, kept,
                                   max_results)
         ELSE DedupLoopNoSeen(all_items, i + 1, seen_titles, unique_items,
                              max_results)

RECURSIVE DedupLoopKeepEmpty(_, _, _, _, _)
DedupLoopKeepEmpty(all_items, i, seen_titles, unique_items, max_results) ==
    IF i > Len(all_items) THEN unique_items
    ELSE LET title == TitleKey(all_items[i]) IN
         IF title \notin seen_titles
         THEN LET kept == Append(unique_items, all_items[i]) IN
              IF Len(kept) >= max_results THEN kept
              ELSE DedupLoopKeepEmpty(all_items, i + 1,
                                      seen_titles \cup {title}, kept,
                                      max_results)
         ELSE DedupLoopKeepEmpty(all_items, i + 1, seen_titles, unique_items,
                                 max_results)

RECURSIVE DedupLoop(_, _, _, _, _)
DedupLoop(all_items, i, seen_titles, unique_items, max_results) ==
    IF i > Len(all_items) THEN unique_items
    ELSE LET title == TitleKey(all_items[i]) IN
         IF title # <<>> /\ title \notin seen_titles
         THEN LET kept == Append(unique_items, all_items[i]) IN
              IF Len(kept) >= max_results THEN kept
              ELSE DedupLoop(all_items, i + 1, seen_titles \cup {title}, kept,
                             max_results)
         ELSE DedupLoop(all_items, i + 1, seen_titles, unique_items,
                        max_results)

\* ParallelSearchService._merge_results
merge_results(results, max_results) ==
    IF results = <<>> THEN <<>>
    ELSE LET all_items == CollectItems(results) IN
         IF all_items = <<>> THEN <<>>
         ELSE SliceTo(DedupLoop(all_items, 1, {}, <<>>, max_results),
                      max_results)

(***************************************************************************)
(* Values exchanged with the providers.                                    *)
(***************************************************************************)
Letters == <<"a", "b", "c", "d", "e", "f", "g", "h", "i", "j">>

Item(t, u) == [title |-> t, url |-> u]

\* five results with distinct titles and URLs, and five others
FiveA == [i \in 1..5 |-> Item(<<Letters[i]>>, <<"x", Letters[i]>>)]
FiveB == [i \in 1..5 |-> Item(<<Letters[i + 5]>>, <<"x", Letters[i + 5]>>)]
\* the URL of FiveA[1] in another case and with a trailing slash under
\* another title, then another URL under the title of FiveA[1]
Overlapping ==
    <<Item(<<"k">>, <<"X", "a", "/">>), Item(<<" ", "a">>, <<"y">>)>>

\* the result lists a successful response of provider p can carry
ResultLists(p) ==
    IF p = "P1" THEN {<<>>, FiveA}
    ELSE IF p = "P2" THEN {FiveB, Overlapping}
    ELSE IF p = "P3" THEN {FiveA}
    ELSE IF p = "P4" THEN {FiveB}
    ELSE {}

None == [none |-> TRUE]

\* SearchResponse of src/search_service.py, by the fields its users read
SearchResponse(provider, results, success, error_message) ==
    [provider |-> provider, results |-> results, success |-> success,
     error_message |-> error_message]

\* "result.to_dict()" of the two collecting loops. SearchResponse.to_dict is
\* not in src/: the dict is known by the response it was made from
to_dict(response) == [to_dict_of |-> response]

\* what "result.get('results', [])" of _merge_results can find in such a
\* dict: the results of the response under the key 'results', or no such
\* key
DictAsRead(d) ==
    {[results |-> d.to_dict_of.results],
     [provider |-> d.to_dict_of.provider]}

\* the results list of an entry point as _merge_results can read it
ReadableAs(results) ==
    {v \in [1..Len(results) ->
               UNION {DictAsRead(results[i]) : i \in 1..Len(results)}] :
        \A i \in 1..Len(results) : v[i] \in DictAsRead(results[i])}

\* what the search of a provider other than the Exa adapter can do: P1
\* returns, with or without success, P2 returns with success or raises,
\* P3 and P4 return with success, P5 returns without
GenericOutcomes(p) ==
    {[kind |-> "return", response |-> SearchResponse(p, l, TRUE, "")] :
        l \in ResultLists(p)}
    \cup (IF p \in {"P1", "P5"}
          THEN {[kind |-> "return",
                 response |-> SearchResponse(p, <<>>, FALSE, "provider error")]}
          ELSE IF p = "P2" THEN {[kind |-> "raise"]}
          ELSE {})

(***************************************************************************)
(* ExaSearchService and ExaSearchProviderAdapter.                          *)
(***************************************************************************)
ExaName == "Exa"

ExaApiItems ==
    {<<>>,
     <<[url |-> <<"y">>], [title |-> <<"b", " ">>, url |-> <<"x", "b">>]>>}

\* what the HTTP request of ExaSearchService.search can do
ExaApiOutcomes ==
    {[kind |-> "json", body |-> [results |-> l]] : l \in ExaApiItems}
    \cup {[kind |-> "status429"]}

\* ExaSearchService.search
ExaSearch(o) ==
    IF o.kind = "json" THEN [ret |-> o.body]
    ELSE [exc |-> "ExaSearchError"]

search_and_extract_reraise(o) ==
    LET search_result == ExaSearch(o) IN
    IF "exc" \in DOMAIN search_result THEN search_result
    ELSE IF "results" \notin DOMAIN search_result.ret THEN [ret |-> <<>>]
    ELSE LET results == search_result.ret.results IN
         [ret |-> [i \in 1..Len(results) |->
                    [title |-> Get(results[i], "title", <<>>),
                     url |-> Get(results[i], "url", <<>>)]]]

\* ExaSearchService.search_and_extract (extract_fields not given)
search_and_extract(o) ==
    LET search_result == ExaSearch(o) IN
    IF "exc" \in DOMAIN search_result THEN [ret |-> <<>>]
    ELSE IF "results" \notin DOMAIN search_result.ret THEN [ret |-> <<>>]
    ELSE LET results == search_result.ret.results IN
         [ret |-> [i \in 1..Len(results) |->
                    [title |-> Get(results[i], "title", <<>>),
                     url |-> Get(results[i], "url", <<>>)]]]

\* ExaSearchService.__init__: "api_key or os.getenv(...)", the key the
\* service holds; "" when there is none and the constructor raises
ServiceKey(api_key, env) == IF api_key # "" THEN api_key ELSE env

\* the services ExaSearchProviderAdapter.__init__ creates: one per key,
\* a key for which ExaSearchService raises is skipped
RECURSIVE ExaServices(_, _)
ExaServices(keys, env) ==
    IF keys = <<>> THEN <<>>
    ELSE IF ServiceKey(Head(keys), env) = "" THEN ExaServices(Tail(keys), env)
    ELSE <<ServiceKey(Head(keys), env)>> \o ExaServices(Tail(keys), env)

do_search_empty_ok(service, extracted) ==
    IF service = None
    THEN SearchResponse(ExaName, <<>>, FALSE, "no service")
    ELSE IF "exc" \in DOMAIN extracted
    THEN SearchResponse(ExaName, <<>>, FALSE,
                        IF extracted.exc = "ExaSearchError"
                        THEN "exa error" ELSE "unknown error")
    ELSE SearchResponse(ExaName,
                        [i \in 1..Len(extracted.ret) |->
                            Item(Get(extracted.ret[i], "title", <<>>),
                                 Get(extracted.ret[i], "url", <<>>))],
                        TRUE, "")

\* ExaSearchProviderAdapter._do_search after _get_next_service returned
\* service; extracted is what search_and_extract did
do_search(service, extracted) ==
    IF service = None
    THEN SearchResponse(ExaName, <<>>, FALSE, "no service")
    ELSE IF "exc" \in DOMAIN extracted
    THEN SearchResponse(ExaName, <<>>, FALSE,
                        IF extracted.exc = "ExaSearchError"
                        THEN "exa error" ELSE "unknown error")
    ELSE IF extracted.ret = <<>>
    THEN SearchResponse(ExaName, <<>>, FALSE, "no results")
    ELSE SearchResponse(ExaName,
                        [i \in 1..Len(extracted.ret) |->
                            Item(Get(extracted.ret[i], "title", <<>>),
                                 Get(extracted.ret[i], "url", <<>>))],
                        TRUE, "")

\* what can happen inside provider.search: to the HTTP request of the Exa
\* adapter, to the whole call of another provider
RawOutcomes(p) == IF p = ExaName THEN ExaApiOutcomes ELSE GenericOutcomes(p)

\* provider.search: BaseSearchProvider.search hands back what _do_search
\* returns
provider_search(p, service, o) ==
    IF p = ExaName
    THEN [kind |-> "return",
          response |-> do_search(service, search_and_extract(o))]
    ELSE o

\* ParallelSearchService._search_single_provider and its async twin:
\* the response, None when provider.search raised
search_single_provider(outcome) ==
    IF outcome.kind = "raise" THEN None ELSE outcome.response

(***************************************************************************)
(* State.                                                                  *)
(***************************************************************************)
VARIABLES
    provider_list,     \* the providers argument of ParallelSearchService()
    api_keys,          \* the api_keys argument of ExaSearchProviderAdapter()
    EXA_API_KEY,       \* the environment variable, "" when it is not set
    max_workers_arg,   \* the max_workers argument of ParallelSearchService()
    exa_services,      \* ExaSearchProviderAdapter._exa_services
    pc,                \* where the caller of the service is
    providers,         \* ParallelSearchService.providers (names)
    max_workers,       \* ParallelSearchService.max_workers
    threads,           \* executor: worker threads left to join in shutdown
    work_queue,        \* executor: submitted calls that wait for a worker
    running,           \* executor: calls that occupy a worker
    cancel_requested,  \* waiting calls whose asyncio task was cancelled
    calls,             \* every provider.search call started so far
    qid,               \* number of the current query
    submitted,         \* how many of its calls have been submitted
    max_results,       \* max_results argument of the current query
    merge_strategy_arg, \* merge_strategy keyword of the current query
    finished,          \* settled calls of the current query, in arrival order
    late,              \* its calls that ended after the query was over
    settling,          \* async: calls the worker has returned from and
                       \* whose task the event loop has not completed
    yielded,           \* how many of them as_completed has handed out
    as_completed,      \* the as_completed generator of the current query
    results,           \* local of the current query
    providers_used,    \* local of the current query
    failed_providers,  \* local of the current query
    ret,               \* what the current query (or the constructor) gave back
    m_pc,              \* merge harness: step
    m_results,         \* merge harness: results argument of _merge_results
    m_cap,             \* merge harness: max_results argument
    m_out,             \* merge harness: what _merge_results returned
    m_again,           \* merge harness: _merge_results of m_out taken twice
    t_pc,              \* adapter threads: where each is in _get_next_service
    t_service,         \* adapter threads: the local variable service
    t_rotated,         \* adapter threads: the list about to be stored
    e_pc,              \* _do_search on its own: step
    e_service,         \* what _get_next_service returned
    e_call,            \* what happens in service.search_and_extract
    e_extracted,       \* what service.search_and_extract did
    e_response,        \* what _do_search returned
    c_pc,              \* _convert_stock_code on its own: step
    c_code,            \* its stock_code argument
    c_symbol           \* what it returned

svc_vars == <<provider_list, api_keys, EXA_API_KEY, max_workers_arg,
              exa_services, pc, providers, max_workers, threads, work_queue,
              running, cancel_requested, calls, qid, submitted, max_results,
              merge_strategy_arg, finished, late, settling, yielded,
              as_completed, results, providers_used, failed_providers, ret>>
merge_vars == <<m_pc, m_results, m_cap, m_out, m_again>>
rot_vars == <<t_pc, t_service, t_rotated>>
exa_vars == <<e_pc, e_service, e_call, e_extracted, e_response>>
conv_vars == <<c_pc, c_code, c_symbol>>
other_vars == <<merge_vars, rot_vars, exa_vars, conv_vars>>
vars == <<svc_vars, merge_vars, rot_vars, exa_vars, conv_vars>>

P1 == "P1"
P2 == "P2"
P3 == "P3"
P4 == "P4"
P5 == "P5"

Provider(name, available) == [name |-> name, available |-> available]

\* the provider lists a service is built from
ProviderLists ==
    {<<>>,
     <<Provider(P1, FALSE)>>,
     <<Provider(P1, TRUE), Provider(P2, TRUE)>>,
     <<Provider(P1, TRUE), Provider(P2, FALSE), Provider(ExaName, TRUE)>>,
     <<Provider(P3, TRUE), Provider(P4, TRUE), Provider(P5, TRUE)>>}

\* the values of the environment variable EXA_API_KEY, "" for not set
EnvKeys == {"", "envkey"}

\* the adapters a service is built with: no service, one service, two
AdapterInputs ==
    {[api_keys |-> <<"">>, env |-> ""],
     [api_keys |-> <<"">>, env |-> "envkey"],
     [api_keys |-> <<"k1", "">>, env |-> "envkey"]}

MaxResultsArgs == {2, 10}

\* the max_workers arguments a service is built with (3 is the default)
WorkerArgs == 0..3

HasExa(list) == \E i \in 1..Len(list) : list[i].name = ExaName

\* BaseSearchProvider.is_available, overridden by the Exa adapter
is_available(provider) ==
    IF provider.name = ExaName THEN Len(exa_services) > 0
    ELSE provider.available

RECURSIVE Names(_)
Names(list) ==
    IF list = <<>> THEN <<>> ELSE <<Head(list).name>> \o Names(Tail(list))

Min(a, b) == IF a < b THEN a ELSE b

Range(s) == {s[i] : i \in 1..Len(s)}

Task(q, p) == [q |-> q, p |-> p]

\* the generator of as_completed before its first next(): no snapshot of
\* the finished futures taken yet
NotEntered == [entered |-> FALSE, already |-> 0, order |-> <<>>]

ParallelSearchResultCountAll(res, used, failed, merged) ==
    [results |-> res, providers_used |-> used,
     success_count |-> Len(used) + Len(failed),
     failed_providers |-> failed, merged_results |-> merged]

\* ParallelSearchResult (query and execution_time left out)
ParallelSearchResult(res, used, failed, merged) ==
    [results |-> res, providers_used |-> used, success_count |-> Len(used),
     failed_providers |-> failed, merged_results |-> merged]

TimeoutError == [exception |-> "TimeoutError"]
TypeError == [exception |-> "TypeError"]
ValueError == [exception |-> "ValueError"]
NoReturn == [pending |-> TRUE]

IsException(r) == "exception" \in DOMAIN r
IsResult(r) == "providers_used" \in DOMAIN r

\* the keyword arguments of the entry points: query, max_results, timeout
NotPassed == "not passed"
StrategyArgs == {NotPassed, "keep_all"}

\* a call binds its arguments; a keyword the signature lacks is a TypeError
SignatureAccepts(kw) == kw = NotPassed

Threads == 1..RotThreads

ExaIdle ==
    /\ e_pc = "off"
    /\ e_service = None
    /\ e_call = None
    /\ e_extracted = None
    /\ e_response = None

ConvIdle ==
    /\ c_pc = "off"
    /\ c_code = <<>>
    /\ c_symbol = <<>>

RotIdle ==
    /\ t_pc = [th \in Threads |-> "off"]
    /\ t_service = [th \in Threads |-> None]
    /\ t_rotated = [th \in Threads |-> <<>>]

MergeIdle ==
    /\ m_pc = "off"
    /\ m_results = <<>>
    /\ m_cap = 0
    /\ m_out = <<>>
    /\ m_again = <<>>

Init ==
    /\ provider_list \in ProviderLists
    /\ \E a \in (IF HasExa(provider_list) THEN AdapterInputs
                  ELSE {[api_keys |-> <<>>, env |-> ""]}) :
          api_keys = a.api_keys /\ EXA_API_KEY = a.env
    /\ max_workers_arg \in WorkerArgs
    /\ exa_services = ExaServices(api_keys, EXA_API_KEY)
    /\ pc = "new"
    /\ providers = <<>>
    /\ max_workers = 0
    /\ threads = 0
    /\ work_queue = <<>>
    /\ running = {}
    /\ cancel_requested = {}
    /\ calls = <<>>
    /\ qid = 0
    /\ submitted = 0
    /\ max_results = 0
    /\ merge_strategy_arg = NotPassed
    /\ finished = <<>>
    /\ late = <<>>
    /\ settling = <<>>
    /\ yielded = 0
    /\ as_completed = NotEntered
    /\ results = <<>>
    /\ providers_used = <<>>
    /\ failed_providers = <<>>
    /\ ret = NoReturn
    /\ MergeIdle
    /\ RotIdle
    /\ ExaIdle
    /\ ConvIdle

(***************************************************************************)
(* ParallelSearchService.__init__                                          *)
(***************************************************************************)
\* ThreadPoolExecutor(max_workers=n) raises ValueError when n <= 0
ExecutorAccepts(n) == n > 0

Construct ==
    /\ pc = "new"
    /\ LET available == Names(SelectSeq(provider_list, is_available))
           workers == Min(max_workers_arg, Len(available))
       IN /\ providers' = available
          /\ max_workers' = workers
          /\ IF ExecutorAccepts(workers)
             THEN pc' = "idle" /\ ret' = NoReturn
             ELSE pc' = "ctor_raised" /\ ret' = ValueError
    /\ UNCHANGED <<provider_list, api_keys, EXA_API_KEY, max_workers_arg,
                   exa_services, threads, work_queue, running,
                   cancel_requested, calls, qid, submitted, max_results, merge_strategy_arg, finished,
                   late, settling, yielded, as_completed, results,
                   providers_used, failed_providers>>
    /\ UNCHANGED other_vars

(***************************************************************************)
(* The executor and the provider calls.                                    *)
(***************************************************************************)
\* _get_next_service, "service = self._exa_services[0]"
ReadHead(services) == [key |-> Head(services)]

RotatedNoMove(services, service) == services

\* _get_next_service, the right-hand side "self._exa_services[1:] + [service]"
Rotated(services, service) == Tail(services) \o <<service.key>>

\* ExaSearchProviderAdapter._get_next_service run by one thread alone: the
\* service it returns and the list it leaves
get_next_service(services) ==
    IF services = <<>> THEN [service |-> None, services |-> services]
    ELSE [service |-> ReadHead(services),
          services |-> Rotated(services, ReadHead(services))]

\* the None that shutdown puts into the work queue to wake the workers
Sentinel == [sentinel |-> TRUE]

\* the worker threads of the executor. It starts them as calls are
\* submitted, max_workers at most, so that max_workers calls can run at a
\* time; after shutdown none is started and those not yet exited remain
Workers == IF pc \in {"closing", "closed"} THEN threads ELSE max_workers

\* a call that occupies a worker: at is where the worker is in it, service
\* and rotated are the locals of _get_next_service
Call(t, at) ==
    [q |-> t.q, p |-> t.p, at |-> at, service |-> None, rotated |-> <<>>]

\* a free worker takes the oldest waiting call and enters provider.search;
\* the call of the Exa adapter begins with _get_next_service
WorkerStart ==
    /\ work_queue # <<>>
    /\ Head(work_queue) # Sentinel
    /\ Cardinality(running) < Workers
    /\ LET t == Head(work_queue)
       IN /\ work_queue' = Tail(work_queue)
          /\ cancel_requested' = cancel_requested \ {t}
          /\ calls' = Append(calls, t)
          /\ running' =
                running \cup {Call(t, IF t.p = ExaName
                                      THEN "get_next_service" ELSE "search")}
    /\ UNCHANGED <<provider_list, api_keys, EXA_API_KEY, max_workers_arg,
                   exa_services, pc, providers, max_workers, threads, qid,
                   submitted, max_results, merge_strategy_arg, finished, late,
                   settling, yielded, as_completed, results, providers_used,
                   failed_providers, ret>>
    /\ UNCHANGED other_vars

\* what the steps of _get_next_service leave alone
WorkerFrame ==
    /\ UNCHANGED <<provider_list, api_keys, EXA_API_KEY, max_workers_arg, pc,
                   providers, max_workers, threads, work_queue,
                   cancel_requested, calls, qid, submitted, max_results,
                   merge_strategy_arg, finished, late, settling, yielded,
                   as_completed, results, providers_used, failed_providers,
                   ret>>
    /\ UNCHANGED other_vars

\* a worker in _get_next_service: "if not self._exa_services: return None"
\* and "service = self._exa_services[0]"
WorkerGetNextRead ==
    \E t \in running :
      /\ t.at = "get_next_service"
      /\ running' =
            (running \ {t})
               \cup {IF exa_services = <<>>
                     THEN [t EXCEPT !.at = "search"]
                     ELSE [t EXCEPT !.at = "has_service",
                                    !.service = ReadHead(exa_services)]}
      /\ UNCHANGED exa_services
      /\ WorkerFrame

\* the right-hand side of the assignment to self._exa_services is evaluated
WorkerGetNextRotate ==
    \E t \in running :
      /\ t.at = "has_service"
      /\ running' =
            (running \ {t})
               \cup {[t EXCEPT !.at = "rotated",
                               !.rotated = Rotated(exa_services, t.service)]}
      /\ UNCHANGED exa_services
      /\ WorkerFrame

\* the assignment is stored, _get_next_service returns service and the
\* request is made
WorkerGetNextStore ==
    \E t \in running :
      /\ t.at = "rotated"
      /\ exa_services' = t.rotated
      /\ running' =
            (running \ {t})
               \cup {[t EXCEPT !.at = "search", !.rotated = <<>>]}
      /\ WorkerFrame

\* the cancellation of one asyncio task reaches its executor future, which
\* still waits: the future is cancelled and no worker will run the call
CancelDelivered ==
    /\ \E t \in cancel_requested :
          /\ work_queue' = SelectSeq(work_queue, LAMBDA u : u # t)
          /\ cancel_requested' = cancel_requested \ {t}
    /\ UNCHANGED <<provider_list, api_keys, EXA_API_KEY, max_workers_arg,
                   exa_services, pc, providers, max_workers, threads, running,
                   calls, qid, submitted, max_results, merge_strategy_arg,
                   finished, late, settling, yielded, as_completed, results,
                   providers_used, failed_providers, ret>>
    /\ UNCHANGED other_vars

\* the settled future of call t, inside which o happened
Settled(t, o) ==
    [q |-> t.q, p |-> t.p, raw |-> o,
     result |-> search_single_provider(provider_search(t.p, t.service, o))]

\* a provider call ends in its worker and the worker is free. The executor
\* future settles: as_completed sees it at once; on the async path the
\* event loop has yet to run the callbacks that complete the task. A query
\* that is over sees nothing.
ProviderReturn ==
    \E t \in running :
      \E o \in RawOutcomes(t.p) :
        /\ t.at = "search"
        /\ running' = running \ {t}
        /\ IF t.q = qid /\ pc = "sync"
           THEN /\ finished' = Append(finished, Settled(t, o))
                /\ as_completed' =
                      IF as_completed.entered
                      THEN [as_completed EXCEPT
                              !.order = Append(@, Len(finished) + 1)]
                      ELSE as_completed
                /\ UNCHANGED <<late, settling>>
           ELSE IF t.q = qid /\ pc = "async"
           THEN /\ settling' = Append(settling, Settled(t, o))
                /\ UNCHANGED <<finished, late, as_completed>>
           ELSE IF t.q = qid
           THEN /\ late' = Append(late, Settled(t, o))
                /\ UNCHANGED <<finished, settling, as_completed>>
           ELSE UNCHANGED <<finished, late, settling, as_completed>>
        /\ UNCHANGED <<provider_list, api_keys, EXA_API_KEY, max_workers_arg,
                       exa_services, pc, providers, max_workers, threads,
                       work_queue, cancel_requested, calls, qid, submitted,
                       max_results, merge_strategy_arg, yielded, results,
                       providers_used, failed_providers, ret>>
        /\ UNCHANGED other_vars

\* the event loop runs the callbacks of the oldest settled executor future:
\* the await of run_in_executor returns, the task completes and
\* asyncio.wait counts it as done
TaskDone ==
    /\ pc = "async"
    /\ submitted = Len(providers)
    /\ settling # <<>>
    /\ finished' = Append(finished, Head(settling))
    /\ settling' = Tail(settling)
    /\ UNCHANGED <<provider_list, api_keys, EXA_API_KEY, max_workers_arg,
                   exa_services, pc, providers, max_workers, threads,
                   work_queue, running, cancel_requested, calls, qid,
                   submitted, max_results, merge_strategy_arg, late, yielded,
                   as_completed, results, providers_used, failed_providers,
                   ret>>
    /\ UNCHANGED other_vars

(***************************************************************************)
(* Collecting the outcomes.                                                *)
(***************************************************************************)
Locals(res, used, failed) ==
    [results |-> res, providers_used |-> used, failed_providers |-> failed]

\* the body of the collecting loops for a settled call:
\* "if result and result.success" ... else ...
HandleSettled(acc, provider_name, result) ==
    IF result # None /\ result.success
    THEN Locals(Append(acc.results, to_dict(result)),
                Append(acc.providers_used, provider_name),
                acc.failed_providers)
    ELSE Locals(acc.results, acc.providers_used,
                Append(acc.failed_providers, provider_name))

HandlePendingForgotten(acc, provider_name) == acc

\* the else branch of search_parallel_async for a task not in done
HandlePending(acc, provider_name) ==
    Locals(acc.results, acc.providers_used,
           Append(acc.failed_providers, provider_name))

\* "merged_results = self._merge_results(results, max_results)" and the
\* return statement of both entry points: the results it can return
Assemble(acc, cap) ==
    {ParallelSearchResult(acc.results, acc.providers_used,
                          acc.failed_providers, merge_results(v, cap)) :
        v \in ReadableAs(acc.results)}

EmptyResult == ParallelSearchResult(<<>>, <<>>, <<>>, <<>>)

StartQuery(mode, cap, kw) ==
    /\ pc \in {"idle", "done", "raised"}
    /\ qid < MaxQueries
    /\ qid' = qid + 1
    /\ submitted' = 0
    /\ merge_strategy_arg' = kw
    /\ finished' = <<>>
    /\ late' = <<>>
    /\ settling' = <<>>
    /\ yielded' = 0
    /\ as_completed' = NotEntered
    /\ results' = <<>>
    /\ providers_used' = <<>>
    /\ failed_providers' = <<>>
    /\ IF ~SignatureAccepts(kw)
       THEN /\ pc' = "raised"
            /\ ret' = TypeError
            /\ UNCHANGED max_results
       ELSE IF providers = <<>>
       THEN /\ pc' = "done"
            /\ ret' = EmptyResult
            /\ max_results' = cap
       ELSE /\ pc' = mode
            /\ ret' = NoReturn
            /\ max_results' = cap
    /\ UNCHANGED <<provider_list, api_keys, EXA_API_KEY, max_workers_arg,
                   exa_services, providers, max_workers, threads, work_queue,
                   running, cancel_requested, calls>>
    /\ UNCHANGED other_vars

\* search_parallel is called: its arguments are bound and it runs up to
\* the loop that submits the calls
search_parallel ==
    \E cap \in MaxResultsArgs, kw \in StrategyArgs :
      StartQuery("sync", cap, kw)

\* search_parallel_async is called: its arguments are bound, the tasks are
\* created and it awaits asyncio.wait; no task has run yet
search_parallel_async ==
    \E cap \in MaxResultsArgs, kw \in StrategyArgs :
      StartQuery("async", cap, kw)

\* the call of the next provider of self.providers goes to the executor
SubmitNext ==
    /\ submitted < Len(providers)
    /\ work_queue' = Append(work_queue, Task(qid, providers[submitted + 1]))
    /\ submitted' = submitted + 1
    /\ UNCHANGED <<provider_list, api_keys, EXA_API_KEY, max_workers_arg,
                   exa_services, pc, providers, max_workers, threads, running,
                   cancel_requested, calls, qid, max_results,
                   merge_strategy_arg, finished, late, settling, yielded,
                   as_completed, results, providers_used, failed_providers,
                   ret>>
    /\ UNCHANGED other_vars

\* one turn of "for provider in self.providers" of search_parallel:
\* executor.submit; the workers run meanwhile
SyncSubmit == pc = "sync" /\ SubmitNext

\* the event loop runs a task for the first time, the tasks in the order
\* they were created in: _search_single_provider_async up to its await of
\* loop.run_in_executor, which submits the call. The first steps of the
\* tasks are in the queue of the event loop ahead of the timer of
\* asyncio.wait and of the callbacks of the calls they submit, so every
\* task has submitted its call before one is done or the timeout expires;
\* the workers run meanwhile
TaskStart == pc = "async" /\ SubmitNext

\* the orders in which a set of n futures can be iterated
Orders(n) ==
    {o \in [1..n -> 1..n] : \A i, j \in 1..n : o[i] = o[j] => i = j}

\* the for statement calls next() for the first time: as_completed takes
\* the futures that are finished by now as a set, which it hands out first,
\* in the order of the set; the others follow as they end
SyncEnter ==
    /\ pc = "sync"
    /\ submitted = Len(providers)
    /\ ~as_completed.entered
    /\ \E o \in Orders(Len(finished)) :
          as_completed' =
             [entered |-> TRUE, already |-> Len(finished), order |-> o]
    /\ UNCHANGED <<provider_list, api_keys, EXA_API_KEY, max_workers_arg,
                   exa_services, pc, providers, max_workers, threads,
                   work_queue, running, cancel_requested, calls, qid,
                   submitted, max_results, merge_strategy_arg, finished, late,
                   settling, yielded, results, providers_used,
                   failed_providers, ret>>
    /\ UNCHANGED other_vars

\* as_completed hands out the next settled future and the loop body runs;
\* after the last one the loop ends and search_parallel returns
SyncYield ==
    /\ pc = "sync"
    /\ as_completed.entered
    /\ yielded < Len(as_completed.order)
    /\ LET f == finished[as_completed.order[yielded + 1]]
           acc == HandleSettled(
                      Locals(results, providers_used, failed_providers),
                      f.p, f.result)
       IN /\ yielded' = yielded + 1
          /\ results' = acc.results
          /\ providers_used' = acc.providers_used
          /\ failed_providers' = acc.failed_providers
          /\ IF yielded + 1 = Len(providers)
             THEN pc' = "done" /\ ret' \in Assemble(acc, max_results)
             ELSE pc' = "sync" /\ ret' = NoReturn
    /\ UNCHANGED <<provider_list, api_keys, EXA_API_KEY, max_workers_arg,
                   exa_services, providers, max_workers, threads, work_queue,
                   running, cancel_requested, calls, qid, submitted,
                   max_results, merge_strategy_arg, finished, late, settling,
                   as_completed>>
    /\ UNCHANGED other_vars

\* what as_completed does when the timeout expires with futures not yet
\* handed out: it raises, and the for statement is outside any try
SyncTimeoutResult(acc, cap) == TimeoutError

SyncTimeout ==
    /\ pc = "sync"
    /\ as_completed.entered
    /\ yielded >= as_completed.already
    /\ yielded < Len(providers)
    /\ LET r == SyncTimeoutResult(
                   Locals(results, providers_used, failed_providers),
                   max_results)
       IN /\ ret' = r
          /\ pc' = IF IsException(r) THEN "raised" ELSE "done"
    /\ UNCHANGED <<provider_list, api_keys, EXA_API_KEY, max_workers_arg,
                   exa_services, providers, max_workers, threads, work_queue,
                   running, cancel_requested, calls, qid, submitted,
                   max_results, merge_strategy_arg, finished, late, settling,
                   yielded, as_completed, results, providers_used,
                   failed_providers>>
    /\ UNCHANGED other_vars

\* the loop "for task, provider_name in tasks" of search_parallel_async;
\* done holds the settled tasks
RECURSIVE ProcessTasks(_, _, _)
ProcessTasks(names, done, acc) ==
    IF names = <<>> THEN acc
    ELSE LET p == Head(names) IN
         IF \E i \in 1..Len(done) : done[i].p = p
         THEN LET i == CHOOSE i \in 1..Len(done) : done[i].p = p IN
              ProcessTasks(Tail(names), done,
                           HandleSettled(acc, p, done[i].result))
         ELSE ProcessTasks(Tail(names), done, HandlePending(acc, p))

\* asyncio.wait has returned with the tasks in finished done and the
\* others pending: the rest of search_parallel_async
AsyncReturn ==
    /\ LET acc == ProcessTasks(providers, finished, Locals(<<>>, <<>>, <<>>))
       IN /\ results' = acc.results
          /\ providers_used' = acc.providers_used
          /\ failed_providers' = acc.failed_providers
          /\ ret' \in Assemble(acc, max_results)
    /\ cancel_requested' =
          cancel_requested \cup {t \in Range(work_queue) : t.q = qid}
    /\ pc' = "done"
    /\ UNCHANGED <<provider_list, api_keys, EXA_API_KEY, max_workers_arg,
                   exa_services, providers, max_workers, threads, work_queue,
                   running, calls, qid, submitted, max_results,
                   merge_strategy_arg, finished, late, settling, yielded,
                   as_completed>>
    /\ UNCHANGED other_vars

\* every task is done before the timeout
AsyncAllCompleted ==
    /\ pc = "async"
    /\ submitted = Len(providers)
    /\ Len(finished) = Len(providers)
    /\ AsyncReturn

\* the timeout of asyncio.wait expires first
AsyncTimeout ==
    /\ pc = "async"
    /\ submitted = Len(providers)
    /\ Len(finished) < Len(providers)
    /\ AsyncReturn

Next ==
    \/ Construct
    \/ search_parallel
    \/ search_parallel_async
    \/ SyncSubmit
    \/ TaskStart
    \/ WorkerStart
    \/ WorkerGetNextRead
    \/ WorkerGetNextRotate
    \/ WorkerGetNextStore
    \/ CancelDelivered
    \/ ProviderReturn
    \/ TaskDone
    \/ SyncEnter
    \/ SyncYield
    \/ SyncTimeout
    \/ AsyncAllCompleted
    \/ AsyncTimeout

Spec == Init /\ [][Next]_vars

(***************************************************************************)
(* ParallelSearchService.close(): executor.shutdown(wait=True) sets the    *)
(* shutdown flag, puts None into the work queue and joins the worker       *)
(* threads. A worker takes the queued calls one after another; when it     *)
(* takes None and the flag is set, it puts None back and exits.            *)
(***************************************************************************)
ShutdownDoneNoWait == TRUE

\* "for t in self._threads: t.join()" has come back from every join
ShutdownDone == threads = 0

\* the numbers of worker threads the executor can have by now. How many
\* it has started depends on when the calls were submitted; there is one
\* for each call that runs, one at least once a call was submitted, and
\* none before the first query
StartedThreads ==
    LET busy == Cardinality(running)
        least == IF busy = 0 /\ (work_queue # <<>> \/ calls # <<>>)
                 THEN 1 ELSE busy
    IN IF qid = 0 THEN {0} ELSE least..max_workers

\* close() is called on a service that is not inside a query: shutdown
\* sets the flag and puts None into the work queue
close ==
    /\ pc \in {"idle", "done", "raised"}
    /\ pc' = "closing"
    /\ threads' \in StartedThreads
    /\ work_queue' = Append(work_queue, Sentinel)
    /\ UNCHANGED <<provider_list, api_keys, EXA_API_KEY, max_workers_arg,
                   exa_services, providers, max_workers, running,
                   cancel_requested, calls, qid, submitted, max_results,
                   merge_strategy_arg, finished, late, settling, yielded,
                   as_completed, results, providers_used, failed_providers,
                   ret>>
    /\ UNCHANGED other_vars

\* a worker that runs no call takes None from the work queue, puts it back
\* for the others and exits
WorkerExit ==
    /\ pc = "closing"
    /\ work_queue # <<>>
    /\ Head(work_queue) = Sentinel
    /\ Cardinality(running) < threads
    /\ threads' = threads - 1
    /\ UNCHANGED <<provider_list, api_keys, EXA_API_KEY, max_workers_arg,
                   exa_services, pc, providers, max_workers, work_queue,
                   running, cancel_requested, calls, qid, submitted,
                   max_results, merge_strategy_arg, finished, late, settling,
                   yielded, as_completed, results, providers_used,
                   failed_providers, ret>>
    /\ UNCHANGED other_vars

\* shutdown(wait=True) has joined the workers and close() returns
CloseReturn ==
    /\ pc = "closing"
    /\ ShutdownDone
    /\ pc' = "closed"
    /\ UNCHANGED <<provider_list, api_keys, EXA_API_KEY, max_workers_arg,
                   exa_services, providers, max_workers, threads, work_queue,
                   running, cancel_requested, calls, qid, submitted,
                   max_results, merge_strategy_arg, finished, late, settling,
                   yielded, as_completed, results, providers_used,
                   failed_providers, ret>>
    /\ UNCHANGED other_vars

\* a service of two available providers: P1 and P2 with one worker or
\* three, P1 and an Exa adapter of two services with one worker
CloseInit ==
    /\ Init
    /\ \/ /\ provider_list = <<Provider(P1, TRUE), Provider(P2, TRUE)>>
          /\ max_workers_arg \in {1, 3}
       \/ /\ HasExa(provider_list)
          /\ Len(exa_services) = 2
          /\ max_workers_arg = 1

CloseNext == Next \/ close \/ WorkerExit \/ CloseReturn

\* a worker takes what is next in the work queue when it is free and goes
\* on through _get_next_service, a call in flight returns, and the join
\* ends once the workers have exited
CloseFairness ==
    /\ WF_vars(WorkerExit)
    /\ WF_vars(WorkerStart)
    /\ WF_vars(WorkerGetNextRead)
    /\ WF_vars(WorkerGetNextRotate)
    /\ WF_vars(WorkerGetNextStore)
    /\ WF_vars(ProviderReturn)
    /\ WF_vars(CloseReturn)

CloseSpec == CloseInit /\ [][CloseNext]_vars /\ CloseFairness

(***************************************************************************)
(* The providers belong to the caller: the is_available of a provider can  *)
(* turn false while the service holds it.                                  *)
(***************************************************************************)
BecomeUnavailable ==
    /\ \E i \in 1..Len(provider_list) :
          /\ provider_list[i].name # ExaName
          /\ provider_list[i].available
          /\ provider_list' =
                [provider_list EXCEPT ![i] =
                    Provider(provider_list[i].name, FALSE)]
    /\ UNCHANGED <<api_keys, EXA_API_KEY, max_workers_arg, exa_services, pc,
                   providers, max_workers, threads, work_queue, running,
                   cancel_requested, calls, qid, submitted, max_results,
                   merge_strategy_arg, finished, late, settling, yielded,
                   as_completed, results, providers_used, failed_providers,
                   ret>>
    /\ UNCHANGED other_vars

\* a service of two providers, the providers other than the Exa adapter
\* available at first
AvailInit ==
    /\ Init
    /\ provider_list \in
          {<<Provider(P1, TRUE), Provider(P2, TRUE)>>,
           <<Provider(P1, TRUE), Provider(P2, FALSE), Provider(ExaName, TRUE)>>}
    /\ Len(exa_services) \in {0, 2}
    /\ max_workers_arg \in {1, 3}

AvailNext == Next \/ BecomeUnavailable

AvailSpec == AvailInit /\ [][AvailNext]_vars

(***************************************************************************)
(* _merge_results on its own: every input a caller can build from the      *)
(* items below, every cap.                                                 *)
(***************************************************************************)
MergeItems ==
    {Item(<<"a">>, <<"x">>),
     Item(<<" ", "a">>, <<"X", "/">>),
     Item(<<"A">>, <<" ", "X">>),
     [url |-> <<"z">>],
     Item(<<"\t">>, <<"w">>)}

SeqsUpTo(S, n) == UNION {[1..k -> S] : k \in 0..n}

MergeDicts ==
    {[results |-> l] : l \in SeqsUpTo(MergeItems, MaxItems)}
    \cup {[provider |-> P1]}

MergeInputs == SeqsUpTo(MergeDicts, 2)

SvcIdle ==
    /\ provider_list = <<>>
    /\ api_keys = <<>>
    /\ EXA_API_KEY = ""
    /\ max_workers_arg = 0
    /\ exa_services = <<>>
    /\ pc = "off"
    /\ providers = <<>>
    /\ max_workers = 0
    /\ threads = 0
    /\ work_queue = <<>>
    /\ running = {}
    /\ cancel_requested = {}
    /\ calls = <<>>
    /\ qid = 0
    /\ submitted = 0
    /\ max_results = 0
    /\ merge_strategy_arg = NotPassed
    /\ finished = <<>>
    /\ late = <<>>
    /\ settling = <<>>
    /\ yielded = 0
    /\ as_completed = NotEntered
    /\ results = <<>>
    /\ providers_used = <<>>
    /\ failed_providers = <<>>
    /\ ret = NoReturn

MergeInit ==
    /\ SvcIdle
    /\ RotIdle
    /\ ExaIdle
    /\ ConvIdle
    /\ m_pc = "start"
    /\ m_results \in MergeInputs
    /\ m_cap \in (0 - 1)..MaxCap
    /\ m_out = <<>>
    /\ m_again = <<>>

\* _merge_results(results, max_results)
MergeCall ==
    /\ m_pc = "start"
    /\ m_out' = merge_results(m_results, m_cap)
    /\ m_pc' = "merged"
    /\ UNCHANGED <<m_results, m_cap, m_again>>
    /\ UNCHANGED <<svc_vars, rot_vars, exa_vars, conv_vars>>

\* its output given back as the result list of two providers
MergeTwice ==
    /\ m_pc = "merged"
    /\ m_again' = merge_results(<<[results |-> m_out], [results |-> m_out]>>,
                                m_cap)
    /\ m_pc' = "again"
    /\ UNCHANGED <<m_results, m_cap, m_out>>
    /\ UNCHANGED <<svc_vars, rot_vars, exa_vars, conv_vars>>

MergeNext == MergeCall \/ MergeTwice

MergeSpec == MergeInit /\ [][MergeNext]_vars

(***************************************************************************)
(* _get_next_service called by several threads on one adapter. The method  *)
(* takes no lock; a thread can be preempted between its statements and     *)
(* between the evaluation of a right-hand side and the assignment.         *)
(***************************************************************************)
RotKeyLists == {<<"k1">>, <<"k1", "k2">>, <<"k1", "", "k2", "k3">>}

RotInit ==
    /\ provider_list = <<Provider(ExaName, TRUE)>>
    /\ api_keys \in RotKeyLists
    /\ EXA_API_KEY \in EnvKeys
    /\ max_workers_arg = 0
    /\ exa_services = ExaServices(api_keys, EXA_API_KEY)
    /\ pc = "off"
    /\ providers = <<>>
    /\ max_workers = 0
    /\ threads = 0
    /\ work_queue = <<>>
    /\ running = {}
    /\ cancel_requested = {}
    /\ calls = <<>>
    /\ qid = 0
    /\ submitted = 0
    /\ max_results = 0
    /\ merge_strategy_arg = NotPassed
    /\ finished = <<>>
    /\ late = <<>>
    /\ settling = <<>>
    /\ yielded = 0
    /\ as_completed = NotEntered
    /\ results = <<>>
    /\ providers_used = <<>>
    /\ failed_providers = <<>>
    /\ ret = NoReturn
    /\ MergeIdle
    /\ ExaIdle
    /\ ConvIdle
    /\ t_pc = [th \in Threads |-> "idle"]
    /\ t_service = [th \in Threads |-> None]
    /\ t_rotated = [th \in Threads |-> <<>>]

RotFrame ==
    /\ UNCHANGED <<provider_list, api_keys, EXA_API_KEY, max_workers_arg, pc,
                   providers, max_workers, threads, work_queue, running,
                   cancel_requested, calls, qid, submitted, max_results,
                   merge_strategy_arg, finished, late, settling, yielded,
                   as_completed, results, providers_used, failed_providers,
                   ret>>
    /\ UNCHANGED <<merge_vars, exa_vars, conv_vars>>

\* "if not self._exa_services: return None" and
\* "service = self._exa_services[0]"
GetNextRead(th) ==
    /\ t_pc[th] = "idle"
    /\ IF exa_services = <<>>
       THEN /\ t_pc' = [t_pc EXCEPT ![th] = "returned"]
            /\ t_service' = t_service
       ELSE /\ t_pc' = [t_pc EXCEPT ![th] = "has_service"]
            /\ t_service' = [t_service EXCEPT ![th] = ReadHead(exa_services)]
    /\ UNCHANGED <<exa_services, t_rotated>>
    /\ RotFrame

\* the right-hand side of the assignment is evaluated
GetNextRotate(th) ==
    /\ t_pc[th] = "has_service"
    /\ t_rotated' =
         [t_rotated EXCEPT ![th] = Rotated(exa_services, t_service[th])]
    /\ t_pc' = [t_pc EXCEPT ![th] = "rotated"]
    /\ UNCHANGED <<exa_services, t_service>>
    /\ RotFrame

\* "self._exa_services = ..." is stored and service is returned
GetNextStore(th) ==
    /\ t_pc[th] = "rotated"
    /\ exa_services' = t_rotated[th]
    /\ t_pc' = [t_pc EXCEPT ![th] = "returned"]
    /\ UNCHANGED <<t_service, t_rotated>>
    /\ RotFrame

RotNext ==
    \E th \in Threads :
      \/ GetNextRead(th)
      \/ GetNextRotate(th)
      \/ GetNextStore(th)

RotSpec == RotInit /\ [][RotNext]_vars

\* no thread is inside _get_next_service
NoCallInProgress == \A th \in Threads : t_pc[th] \in {"idle", "returned"}

\* _get_next_service called when no other call of it is in progress
SeqGetNextRead(th) == NoCallInProgress /\ GetNextRead(th)

\* the calls of _get_next_service one at a time
SeqRotNext ==
    \E th \in Threads :
      \/ SeqGetNextRead(th)
      \/ GetNextRotate(th)
      \/ GetNextStore(th)

SeqRotSpec == RotInit /\ [][SeqRotNext]_vars

(***************************************************************************)
(* ExaSearchProviderAdapter._do_search on its own: with and without a      *)
(* service, over an ExaSearchService whose HTTP request succeeds or fails, *)
(* and over a service object whose search_and_extract raises.              *)
(***************************************************************************)
ExaHarnessItems ==
    {[url |-> <<"y">>],
     [title |-> <<"b", " ">>, url |-> <<"x", "b">>],
     [title |-> <<"a">>],
     [title |-> <<>>, url |-> <<"z">>]}

\* what the HTTP request of ExaSearchService.search can do
ExaHarnessApi ==
    {[kind |-> "json", body |-> [results |-> l]] :
        l \in SeqsUpTo(ExaHarnessItems, MaxItems)}
    \cup {[kind |-> "json", body |-> [error |-> "bad request"]],
          [kind |-> "status429"],
          [kind |-> "request_failed"]}

\* what the call service.search_and_extract can be
ExaHarnessCalls ==
    {[kind |-> "http", outcome |-> o] : o \in ExaHarnessApi}
    \cup {[kind |-> "raises", exc |-> e] : e \in {"ExaSearchError", "Exception"}}

\* results = service.search_and_extract(query=query, num_results=max_results)
ServiceCall(call) ==
    IF call.kind = "http" THEN search_and_extract(call.outcome)
    ELSE [exc |-> call.exc]

\* the key lists of the adapter: no service, one, two
ExaHarnessKeys == {<<"">>, <<"k1">>, <<"k1", "k2">>}

ExaInit ==
    /\ provider_list = <<>>
    /\ api_keys \in ExaHarnessKeys
    /\ EXA_API_KEY = ""
    /\ max_workers_arg = 0
    /\ exa_services = ExaServices(api_keys, EXA_API_KEY)
    /\ pc = "off"
    /\ providers = <<>>
    /\ max_workers = 0
    /\ threads = 0
    /\ work_queue = <<>>
    /\ running = {}
    /\ cancel_requested = {}
    /\ calls = <<>>
    /\ qid = 0
    /\ submitted = 0
    /\ max_results = 0
    /\ merge_strategy_arg = NotPassed
    /\ finished = <<>>
    /\ late = <<>>
    /\ settling = <<>>
    /\ yielded = 0
    /\ as_completed = NotEntered
    /\ results = <<>>
    /\ providers_used = <<>>
    /\ failed_providers = <<>>
    /\ ret = NoReturn
    /\ MergeIdle
    /\ RotIdle
    /\ ConvIdle
    /\ e_pc = "start"
    /\ e_service = None
    /\ e_call \in ExaHarnessCalls
    /\ e_extracted = None
    /\ e_response = None

\* what _do_search leaves alone apart from the adapter's list
ExaFrame ==
    /\ UNCHANGED <<provider_list, api_keys, EXA_API_KEY, max_workers_arg, pc,
                   providers, max_workers, threads, work_queue, running,
                   cancel_requested, calls, qid, submitted, max_results,
                   merge_strategy_arg, finished, late, settling, yielded,
                   as_completed, results, providers_used, failed_providers,
                   ret>>
    /\ UNCHANGED <<merge_vars, rot_vars, conv_vars>>

\* "service = self._get_next_service()"
ExaGetService ==
    /\ e_pc = "start"
    /\ LET next == get_next_service(exa_services)
       IN /\ e_service' = next.service
          /\ exa_services' = next.services
    /\ e_pc' = "has_service"
    /\ UNCHANGED <<e_call, e_extracted, e_response>>
    /\ ExaFrame

\* "if not service: return SearchResponse(...)"
ExaNoService ==
    /\ e_pc = "has_service"
    /\ e_service = None
    /\ e_response' = do_search(e_service, e_extracted)
    /\ e_pc' = "returned"
    /\ UNCHANGED <<exa_services, e_service, e_call, e_extracted>>
    /\ ExaFrame

\* the call of service.search_and_extract inside the try
ExaExtract ==
    /\ e_pc = "has_service"
    /\ e_service # None
    /\ e_extracted' = ServiceCall(e_call)
    /\ e_pc' = "extracted"
    /\ UNCHANGED <<exa_services, e_service, e_call, e_response>>
    /\ ExaFrame

\* the rest of the try and the except clauses
ExaRespond ==
    /\ e_pc = "extracted"
    /\ e_response' = do_search(e_service, e_extracted)
    /\ e_pc' = "returned"
    /\ UNCHANGED <<exa_services, e_service, e_call, e_extracted>>
    /\ ExaFrame

ExaNext == ExaGetService \/ ExaNoService \/ ExaExtract \/ ExaRespond

ExaSpec == ExaInit /\ [][ExaNext]_vars

(***************************************************************************)
(* FinnhubFetcher._convert_stock_code on its own. A stock code is a        *)
(* sequence of one-character strings.                                      *)
(***************************************************************************)
CodeChars == {"0", "3", "5", "6", "7", "a", "A"}

Digits == {"0", "3", "5", "6", "7"}

\* str.startswith(prefixes) for one-character prefixes
StartsWith(str, prefixes) == str # <<>> /\ Head(str) \in prefixes

\* str.isdigit()
IsDigitStr(str) == str # <<>> /\ \A i \in 1..Len(str) : str[i] \in Digits

\* str.upper()
Upper(str) == [i \in 1..Len(str) |-> IF str[i] = "a" THEN "A" ELSE str[i]]

\* FinnhubFetcher._convert_stock_code
convert_stock_code(stock_code) ==
    IF StartsWith(stock_code, {"6", "5"})
    THEN stock_code \o <<".", "S", "S">>
    ELSE IF StartsWith(stock_code, {"0", "3"})
    THEN stock_code \o <<".", "S", "Z">>
    ELSE IF IsDigitStr(stock_code) /\ Len(stock_code) = 5
    THEN stock_code \o <<".", "H", "K">>
    ELSE Upper(stock_code)

ConvInit ==
    /\ SvcIdle
    /\ MergeIdle
    /\ RotIdle
    /\ ExaIdle
    /\ c_pc = "start"
    /\ c_code \in SeqsUpTo(CodeChars, MaxCodeLen)
    /\ c_symbol = <<>>

\* symbol = self._convert_stock_code(stock_code)
ConvCall ==
    /\ c_pc = "start"
    /\ c_symbol' = convert_stock_code(c_code)
    /\ c_pc' = "converted"
    /\ UNCHANGED c_code
    /\ UNCHANGED <<svc_vars, merge_vars, rot_vars, exa_vars>>

ConvNext == ConvCall

ConvSpec == ConvInit /\ [][ConvNext]_vars

(***************************************************************************)
(* Properties of the service.                                              *)
(***************************************************************************)
\* a query called with query, max_results and timeout is over: its entry
\* point returned or raised
QueryOver ==
    qid > 0 /\ pc \in {"done", "raised"} /\ merge_strategy_arg = NotPassed

\* a query returned a ParallelSearchResult
Returned == qid > 0 /\ pc = "done" /\ IsResult(ret)

Dispatched == Range(providers)

Succeeded(f) == f.result # None /\ f.result.success

NamesOf(done) == {done[i].p : i \in 1..Len(done)}

SucceededNames(done) ==
    {done[i].p : i \in {j \in 1..Len(done) : Succeeded(done[j])}}

FailedNames(done) ==
    {done[i].p : i \in {j \in 1..Len(done) : ~Succeeded(done[j])}}

Occurrences(list, x) == Cardinality({i \in 1..Len(list) : list[i] = x})

\* C1 (as claimed): when k of the N providers of a query fail, whenever
\* they do, and the other N-k >= 1 return success=true before the timeout
\* (and are collected before it), the query returns a result with N-k
\* names in providers_used, k names in failed_providers and in results
\* the responses of the N-k, unchanged.
C1_FailureIsolation ==
    ( /\ QueryOver
      /\ NamesOf(finished) \cup NamesOf(late) = Dispatched
      /\ SucceededNames(finished) # {}
      /\ SucceededNames(late) = {}
      /\ pc = "raised" => yielded = Len(finished) )
    => /\ IsResult(ret)
       /\ Len(ret.providers_used) = Cardinality(SucceededNames(finished))
       /\ Len(ret.failed_providers) =
             Cardinality(Dispatched) - Cardinality(SucceededNames(finished))
       /\ Len(ret.results) = Len(ret.providers_used)
       /\ \A i \in 1..Len(ret.results) :
             \E j \in 1..Len(finished) :
                /\ finished[j].p = ret.providers_used[i]
                /\ Succeeded(finished[j])
                /\ ret.results[i] = to_dict(finished[j].result)

\* C2 (as claimed): every query returns a well-formed ParallelSearchResult
\* and raises nothing, whatever the providers do.
C2_NeverRaises ==
    QueryOver =>
       /\ IsResult(ret)
       /\ ret.success_count = Len(ret.providers_used)
       /\ Range(ret.providers_used) \cup Range(ret.failed_providers)
             \subseteq Dispatched

\* C3 (as claimed): a provider whose call has not settled when the timeout
\* expires is in failed_providers of the returned result, and a provider
\* that settled before keeps its outcome.
C3_TimedOutRecorded ==
    QueryOver =>
       /\ IsResult(ret)
       /\ \A p \in Dispatched \ NamesOf(finished) :
             p \in Range(ret.failed_providers)
       /\ \A p \in SucceededNames(finished) :
             p \in Range(ret.providers_used)
       /\ \A p \in FailedNames(finished) :
             p \in Range(ret.failed_providers)

\* C4: in a returned result providers_used and failed_providers are
\* disjoint, name dispatched providers only, every dispatched provider is
\* in exactly one of them exactly once, and both are empty only when no
\* provider was dispatched.
C4_ExactlyOneOutcome ==
    Returned =>
       /\ Range(ret.providers_used) \cap Range(ret.failed_providers) = {}
       /\ Range(ret.providers_used) \cup Range(ret.failed_providers)
             = Dispatched
       /\ \A p \in Dispatched :
             Occurrences(ret.providers_used, p)
               + Occurrences(ret.failed_providers, p) = 1
       /\ (ret.providers_used = <<>> /\ ret.failed_providers = <<>>)
             => providers = <<>>

\* C4 witness: a query returned with one provider used, one failed and one
\* that had not settled at the timeout.
C4_Witness ==
    /\ Returned
    /\ Len(ret.providers_used) >= 1
    /\ FailedNames(finished) # {}
    /\ Len(finished) < Len(providers)

\* C5 (as claimed): a query yields an aggregate whose success_count is
\* positive exactly when some provider outcome is a success, and when every
\* provider failed or timed out the aggregate has success_count 0 and no
\* merged results.
C5_SuccessIffOneSucceeded ==
    QueryOver =>
       /\ IsResult(ret)
       /\ (ret.success_count > 0) <=> (SucceededNames(finished) # {})
       /\ (SucceededNames(finished) = {}) =>
             (ret.success_count = 0 /\ ret.merged_results = <<>>)

\* C6 (as claimed): with no available provider nothing raises from the
\* construction of the service on, and a query gets the empty result
\* without a provider being called.
C6_NoProviderShortCircuit ==
    ( /\ pc # "new"
      /\ max_workers_arg >= 1
      /\ \A i \in 1..Len(provider_list) : ~is_available(provider_list[i]) )
    => /\ pc # "ctor_raised"
       /\ ~IsException(ret)
       /\ calls = <<>>
       /\ qid > 0 => ret = EmptyResult

\* a call that completed without error and found nothing: a response with
\* success and no results, for the Exa adapter an answer of the Exa API
\* that lists no results
EmptySuccess(f) ==
    IF f.p = ExaName
    THEN f.raw.kind = "json" /\ Get(f.raw.body, "results", <<"none">>) = <<>>
    ELSE /\ f.raw.kind = "return"
         /\ f.raw.response.success
         /\ f.raw.response.results = <<>>

\* C7 (as claimed): a provider whose search completed without error and
\* with zero results is in providers_used, not in failed_providers, and
\* makes the aggregate a success; the Exa adapter included.
C7_EmptyButSuccessful ==
    Returned =>
       \A i \in 1..Len(finished) :
          EmptySuccess(finished[i]) =>
             /\ finished[i].p \in Range(ret.providers_used)
             /\ finished[i].p \notin Range(ret.failed_providers)
             /\ ret.success_count > 0

\* Scenario A: three providers, one returned FiveA, one FiveB, the third
\* had not settled when the timeout expired; max_results is 10
ScenarioA ==
    /\ QueryOver
    /\ Len(providers) = 3
    /\ max_results = 10
    /\ Len(finished) = 2
    /\ \E i, j \in 1..2 :
          /\ Succeeded(finished[i]) /\ finished[i].result.results = FiveA
          /\ Succeeded(finished[j]) /\ finished[j].result.results = FiveB

\* C9 (as claimed, on Scenario A): P1 returns 5 results, P2 returns 5
\* others, P3 times out: the result has the 10 of them in merged_results,
\* the two providers in providers_used and the third in failed_providers.
C9_ScenarioA ==
    ScenarioA =>
       /\ IsResult(ret)
       /\ Len(ret.merged_results) = 10
       /\ Range(FiveA) \cup Range(FiveB) \subseteq Range(ret.merged_results)
       /\ Range(ret.providers_used) = NamesOf(finished)
       /\ Range(ret.failed_providers) = Dispatched \ NamesOf(finished)

(***************************************************************************)
(* Properties of _merge_results.                                           *)
(***************************************************************************)
Lower(c) == IF c = "X" THEN "x" ELSE IF c = "A" THEN "a" ELSE c

\* a URL trimmed and lower-cased
NormalizedUrl(item) ==
    LET u == Strip(Get(item, "url", <<>>)) IN [i \in 1..Len(u) |-> Lower(u[i])]

\* ... and without a trailing slash
UrlKey(item) ==
    LET u == NormalizedUrl(item) IN
    IF u # <<>> /\ u[Len(u)] = "/" THEN SubSeq(u, 1, Len(u) - 1) ELSE u

\* a title with the surrounding whitespace stripped
StrippedTitle(item) == Strip(Get(item, "title", <<>>))

Merged == m_pc \in {"merged", "again"}

\* two providers with one result each, the cap lets both through
TwoProvidersOneEach ==
    /\ Len(m_results) = 2
    /\ \A i \in 1..2 : Len(Get(m_results[i], "results", <<>>)) = 1
    /\ m_cap >= 2

\* C8 (as claimed): no two entries of the merged list share a normalized
\* URL; two results of two providers whose URLs differ only in letter case
\* and a trailing slash become one entry, whatever their titles.
C8_NoSharedUrl ==
    Merged =>
       /\ \A i, j \in 1..Len(m_out) :
             (i < j /\ NormalizedUrl(m_out[i]) # <<>>)
                => NormalizedUrl(m_out[i]) # NormalizedUrl(m_out[j])
       /\ ( /\ TwoProvidersOneEach
            /\ UrlKey(m_results[1].results[1]) # <<>>
            /\ UrlKey(m_results[1].results[1]) = UrlKey(m_results[2].results[1]) )
          => Len(m_out) <= 1

\* C10: merging an output of _merge_results with itself, under the same
\* cap, gives that output again.
C10_MergeIdempotent == m_pc = "again" => m_again = m_out

\* C10 witness: an output of two entries, shorter than its input, was
\* merged with itself.
C10_Witness ==
    /\ m_pc = "again"
    /\ Len(m_out) = 2
    /\ Len(CollectItems(m_results)) > 2
    /\ m_again = m_out


(***************************************************************************)
(* Properties of the service: counts, order, workers, deadline.            *)
(***************************************************************************)
\* the responses the dicts of a results list were made from
ResponsesOf(dicts) == [i \in 1..Len(dicts) |-> dicts[i].to_dict_of]

RECURSIVE SumLen(_)
\* the number of results the responses of a list carry
SumLen(dicts) ==
    IF dicts = <<>> THEN 0
    ELSE Len(Head(dicts).results) + SumLen(Tail(dicts))

\* the settled calls that succeeded, in the order they ended
SucceededInOrder(done) == SelectSeq(done, Succeeded)

\* the number of results the succeeding calls returned
RawTotal(done) ==
    SumLen([i \in 1..Len(SucceededInOrder(done)) |->
               SucceededInOrder(done)[i].result])

\* C11 (as claimed): a returned result has merge_stats, which gives for
\* every provider in providers_used the number of results it returned,
\* before deduplication and truncation.
C11_MergeStats ==
    Returned =>
       /\ "merge_stats" \in DOMAIN ret
       /\ \A i \in 1..Len(ret.providers_used) :
             ret.merge_stats[ret.providers_used[i]]
                = Len(ret.results[i].to_dict_of.results)

\* C12 (as claimed): in a returned result providers_used and results are in
\* the order in which the calls ended, and of two entries with the same
\* dedup key the one of the provider that ended later is not kept.
C12_CompletionOrder ==
    Returned =>
       LET ok == SucceededInOrder(finished) IN
       /\ ret.providers_used = [i \in 1..Len(ok) |-> ok[i].p]
       /\ ret.results = [i \in 1..Len(ok) |-> to_dict(ok[i].result)]
       /\ \A i, j \in 1..Len(ok) :
             i < j =>
                \A a \in Range(ok[i].result.results) :
                   \A b \in Range(ok[j].result.results) :
                      ( /\ a # b
                        /\ StrippedTitle(a) # <<>>
                        /\ StrippedTitle(a) = StrippedTitle(b) )
                      => b \notin Range(ret.merged_results)

\* min(max_workers, number of providers)
WorkerBudget == Min(max_workers_arg, Len(providers))

\* the calls of the current query that wait for a worker
Waiting == {t \in Range(work_queue) : t.q = qid}

\* the calls of the current query that occupy a worker
RunningOwn == {t \in running : t.q = qid}

\* C13 (as claimed): at most min(max_workers, N) calls run at a time, no
\* provider of a query is called twice, and when the query is over every
\* provider was called exactly once and is in exactly one list of the
\* result.
C13_OneCallEach ==
    /\ pc # "new" => Cardinality(running) <= WorkerBudget
    /\ \A p \in Dispatched : Occurrences(calls, Task(qid, p)) <= 1
    /\ QueryOver =>
          /\ IsResult(ret)
          /\ \A p \in Dispatched :
                /\ Occurrences(calls, Task(qid, p)) = 1
                /\ Occurrences(ret.providers_used, p)
                     + Occurrences(ret.failed_providers, p) = 1

\* C14 (as claimed): a query that is over while one of its calls has not
\* returned handed a result back: the caller does not wait for the call
\* and gets its ParallelSearchResult when the timeout expires.
C14_DeadlineResult ==
    (QueryOver /\ RunningOwn # {}) => IsResult(ret)

\* C15 (as claimed): a call of the current query waits only for workers
\* that calls of the same query hold: while it waits with every worker
\* taken, no worker is held by a call of an earlier query.
C15_OwnWorkers ==
    ( /\ pc \in {"sync", "async"}
      /\ Waiting # {}
      /\ Cardinality(running) = max_workers )
    => running = RunningOwn

\* C16 (as claimed): when a query is over no provider of it is still
\* waiting for a worker that a call of the same query holds without having
\* returned, and every provider that answered with success before the end
\* is in providers_used.
C16_SiblingsNotDelayed ==
    QueryOver =>
       /\ ~(Waiting # {} /\ Cardinality(RunningOwn) = max_workers)
       /\ \A p \in SucceededNames(finished) :
             IsResult(ret) /\ p \in Range(ret.providers_used)

\* C17 (as claimed): a query whose call ended after the deadline has built
\* its aggregate, and the aggregate holds what the calls that ended before
\* gave: the late call is once in failed_providers, not in providers_used,
\* and results has the responses of the others only.
C17_BuiltOnceAndFrozen ==
    (QueryOver /\ late # <<>>) =>
       /\ IsResult(ret)
       /\ \A p \in NamesOf(late) :
             /\ p \notin Range(ret.providers_used)
             /\ Occurrences(ret.failed_providers, p) = 1
       /\ Range(ret.providers_used) = SucceededNames(finished)
       /\ SumLen(ResponsesOf(ret.results)) = RawTotal(finished)

\* what search_parallel_async returns for calls that behaved as those of
\* the current query did
AsyncOutcome ==
    Assemble(ProcessTasks(providers, finished, Locals(<<>>, <<>>, <<>>)),
             max_results)

\* the same providers_used and failed_providers as sets, the same
\* success_count
Equivalent(a, b) ==
    /\ IsResult(a)
    /\ IsResult(b)
    /\ Range(a.providers_used) = Range(b.providers_used)
    /\ Range(a.failed_providers) = Range(b.failed_providers)
    /\ a.success_count = b.success_count

\* C18 (as claimed): whichever entry point ran the query, what it gave
\* back is equivalent to what search_parallel_async returns for the same
\* behaviour of the providers.
C18_EntryPointsEquivalent ==
    QueryOver => \E r \in AsyncOutcome : Equivalent(ret, r)


\* a query called with a merge_strategy keyword is over
StrategyQueryOver ==
    qid > 0 /\ pc \in {"done", "raised"} /\ merge_strategy_arg # NotPassed

\* C20 (as claimed): a query called with merge_strategy = keep_all returns
\* a result whose merged_results has every result of the providers used,
\* duplicates included, up to the cap.
C20_KeepAll ==
    (StrategyQueryOver /\ merge_strategy_arg = "keep_all") =>
       /\ IsResult(ret)
       /\ Len(ret.merged_results)
             = Min(SumLen(ResponsesOf(ret.results)), max_results)


(***************************************************************************)
(* Properties of the rotation of the Exa services.                         *)
(***************************************************************************)
\* the services created at construction
InitialServices == ExaServices(api_keys, EXA_API_KEY)

RECURSIVE RotateBy(_, _)
\* a list rotated by m positions
RotateBy(list, m) ==
    IF m = 0 \/ list = <<>> THEN list
    ELSE RotateBy(Tail(list) \o <<Head(list)>>, m - 1)

CallsReturned == {th \in Threads : t_pc[th] = "returned"}

CallsInProgress == {th \in Threads : t_pc[th] \in {"has_service", "rotated"}}

\* C19 (as claimed): under every interleaving of _get_next_service calls
\* _exa_services is a permutation of the services created at construction,
\* m completed calls leave it rotated by m positions, and of no more
\* calls than there are services no two have the same service.
C19_RotationSerialized ==
    /\ Len(exa_services) = Len(InitialServices)
    /\ Range(exa_services) = Range(InitialServices)
    /\ CallsInProgress = {} =>
          exa_services
             = RotateBy(InitialServices, Cardinality(CallsReturned))
    /\ Cardinality(CallsReturned \cup CallsInProgress)
          <= Len(InitialServices)
       => \A a, b \in CallsReturned \cup CallsInProgress :
             a # b => t_service[a] # t_service[b]

\* the number of services created at construction
NumServices == Len(InitialServices)

\* C28: with the calls of _get_next_service made one at a time, the k-th
\* call gets service number (k-1) mod n of the initial list, k completed
\* calls leave the list rotated by k positions, so that after every n
\* calls it is in its initial order, and its length never changes.
C28_RoundRobin ==
    /\ Len(exa_services) = NumServices
    /\ \A th \in CallsInProgress :
          t_service[th].key
             = InitialServices[(Cardinality(CallsReturned) % NumServices) + 1]
    /\ CallsInProgress = {} =>
          /\ exa_services
                = RotateBy(InitialServices, Cardinality(CallsReturned))
          /\ Cardinality(CallsReturned) % NumServices = 0
                => exa_services = InitialServices

\* C28 witness: more than one service, as many completed calls as there
\* are services, each service handed out once, and the list back in its
\* initial order.
C28_Witness ==
    /\ NumServices > 1
    /\ CallsInProgress = {}
    /\ Cardinality(CallsReturned) = NumServices
    /\ {t_service[th].key : th \in CallsReturned} = Range(InitialServices)
    /\ exa_services = InitialServices

(***************************************************************************)
(* Properties of close().                                                  *)
(***************************************************************************)
\* the calls that wait in the work queue
QueuedCalls == {t \in Range(work_queue) : t # Sentinel}

\* C29: close() has returned only when no provider call is running or
\* queued, the calls of queries that timed out included, and when every
\* call in flight returns, a close() that was called returns.
C29_CloseWaitsForCalls ==
    /\ [](pc = "closed" => running = {} /\ QueuedCalls = {})
    /\ (pc = "closing" ~> pc = "closed")

\* C29 witness: close() was called after a query ended by its timeout and
\* has not returned, a call of that query is still running.
C29_Witness ==
    /\ pc = "closing"
    /\ qid > 0
    /\ \E t \in running : t.q = qid
    /\ \/ ret = TimeoutError
       \/ IsResult(ret) /\ ret.failed_providers # <<>>

(***************************************************************************)
(* Properties of the dispatch.                                             *)
(***************************************************************************)
\* the names of the providers whose is_available is true now
AvailableNames ==
    {provider_list[i].name :
        i \in {j \in 1..Len(provider_list) : is_available(provider_list[j])}}

\* a query submits a call
DispatchStep == submitted' = submitted + 1

\* C22 (as claimed): every call a query submits is a call of a provider
\* whose is_available is true when the call is dispatched, whatever it
\* was when the service was constructed.
C22_OnlyAvailableDispatched ==
    [][DispatchStep =>
          work_queue'[Len(work_queue')].p \in AvailableNames]_vars

(***************************************************************************)
(* Properties of _convert_stock_code.                                      *)
(***************************************************************************)
\* a Hong Kong code: five characters, all of them digits
HongKongCode(code) ==
    Len(code) = 5 /\ \A i \in 1..5 : code[i] \in {"0", "3", "5", "6", "7"}

\* C23 (as claimed): a five-digit Hong Kong code becomes code.HK, another
\* code that starts with 6 or 5 becomes code.SS, one that starts with 0 or
\* 3 becomes code.SZ, and any other code is returned in upper case.
C23_FinnhubSymbol ==
    c_pc = "converted" =>
       c_symbol =
          IF HongKongCode(c_code) THEN c_code \o <<".", "H", "K">>
          ELSE IF c_code # <<>> /\ c_code[1] \in {"6", "5"}
          THEN c_code \o <<".", "S", "S">>
          ELSE IF c_code # <<>> /\ c_code[1] \in {"0", "3"}
          THEN c_code \o <<".", "S", "Z">>
          ELSE [i \in 1..Len(c_code) |->
                   IF c_code[i] = "a" THEN "A" ELSE c_code[i]]


(***************************************************************************)
(* Properties of _do_search and search_and_extract.                        *)
(***************************************************************************)
DoSearchReturned == e_pc = "returned"

\* C21: _do_search returns a SearchResponse in every case; without a
\* service, and with a service whose search_and_extract raises
\* ExaSearchError or another exception, the response has success=false, no
\* results and an error message; success=true comes with results only.
C21_DoSearchNeverRaises ==
    DoSearchReturned =>
       /\ DOMAIN e_response
             = {"provider", "results", "success", "error_message"}
       /\ (e_service = None \/ e_call.kind = "raises") =>
             /\ e_response.success = FALSE
             /\ e_response.results = <<>>
             /\ e_response.error_message # ""
       /\ e_response.success => e_response.results # <<>>

\* C21 witness: the service raised ExaSearchError and _do_search returned.
C21_Witness ==
    /\ DoSearchReturned
    /\ e_service # None
    /\ e_call = [kind |-> "raises", exc |-> "ExaSearchError"]
    /\ e_response.success = FALSE

\* the response of _do_search for a search that found nothing
NothingFound ==
    [provider |-> ExaName, results |-> <<>>, success |-> FALSE,
     error_message |-> "no results"]

\* the HTTP request of an ExaSearchService failed
HttpFailed ==
    /\ e_service # None
    /\ e_call.kind = "http"
    /\ e_call.outcome.kind \in {"status429", "request_failed"}

\* C30: when the HTTP request fails, search_and_extract returns an empty
\* list and raises nothing, and _do_search returns the response of a
\* search that found nothing; with an ExaSearchService no response comes
\* from the except clauses of _do_search.
C30_SearchErrorsSwallowed ==
    /\ (e_pc \in {"extracted", "returned"} /\ HttpFailed) =>
          e_extracted = [ret |-> <<>>]
    /\ (DoSearchReturned /\ HttpFailed) => e_response = NothingFound
    /\ (DoSearchReturned /\ e_call.kind = "http") =>
          e_response.error_message \notin {"exa error", "unknown error"}

\* C30 witness: the request was answered with status 429 and _do_search
\* returned.
C30_Witness ==
    /\ DoSearchReturned
    /\ HttpFailed
    /\ e_call.outcome.kind = "status429"
    /\ e_response.success = FALSE


(***************************************************************************)
(* Properties of the returned result and of _merge_results, continued.     *)
(***************************************************************************)
\* C24: in a returned result success_count, the length of providers_used
\* and the length of results are equal, and the i-th element of results is
\* the response of the i-th provider of providers_used.
C24_ResultsMatchProviders ==
    Returned =>
       /\ ret.success_count = Len(ret.providers_used)
       /\ Len(ret.providers_used) = Len(ret.results)
       /\ \A i \in 1..Len(ret.results) :
             /\ ret.results[i].to_dict_of.provider = ret.providers_used[i]
             /\ \E j \in 1..Len(finished) :
                   /\ finished[j].p = ret.providers_used[i]
                   /\ finished[j].result # None
                   /\ ret.results[i] = to_dict(finished[j].result)

\* C24 witness: a result with two providers used, whose responses differ,
\* and one failed.
C24_Witness ==
    /\ Returned
    /\ Len(ret.providers_used) = 2
    /\ Len(ret.failed_providers) = 1
    /\ ret.results[1].to_dict_of.results # ret.results[2].to_dict_of.results

RECURSIVE ConcatUpTo(_, _)
\* the result lists of the first k dicts, one after another
ConcatUpTo(dicts, k) ==
    IF k = 0 THEN <<>>
    ELSE ConcatUpTo(dicts, k - 1) \o Get(dicts[k], "results", <<>>)

\* the input of the merge as one list
MergeInput == ConcatUpTo(m_results, Len(m_results))

\* the positions of the entries of a list that are the first with their
\* stripped title, the empty title left out
FirstOccurrencesOf(all) ==
    LET key == [i \in 1..Len(all) |-> StrippedTitle(all[i])]
    IN {i \in 1..Len(all) :
           key[i] # <<>> /\ \A j \in 1..(i - 1) : key[j] # key[i]}

FirstOccurrences == FirstOccurrencesOf(MergeInput)

Max0(n) == IF n > 0 THEN n ELSE 0

\* C25: the merged list has at most max(max_results, 0) entries.
C25_MergedWithinCap ==
    Merged => Len(m_out) <= Max0(m_cap)

\* C25 witness: the input has more distinct titles than the cap lets
\* through, and the output has as many entries as the cap.
C25_Witness ==
    /\ Merged
    /\ m_cap >= 1
    /\ Cardinality(FirstOccurrences) > m_cap
    /\ Len(m_out) = m_cap

\* C26: every entry of the output has a non-empty stripped title, no two
\* have the same one, and no input entry whose title is missing, empty or
\* whitespace is in the output.
C26_KeyedByStrippedTitle ==
    Merged =>
       LET all == MergeInput
           key == [i \in 1..Len(m_out) |-> StrippedTitle(m_out[i])]
       IN /\ \A i \in 1..Len(m_out) : key[i] # <<>>
          /\ \A i, j \in 1..Len(m_out) : key[i] = key[j] => i = j
          /\ \A i \in 1..Len(all) :
                StrippedTitle(all[i]) = <<>> => all[i] \notin Range(m_out)

\* C26 witness: the input has an entry without title and one whose title
\* is whitespace, and the output is not empty.
C26_Witness ==
    /\ Merged
    /\ \E i, j \in 1..Len(MergeInput) :
          /\ "title" \notin DOMAIN MergeInput[i]
          /\ "title" \in DOMAIN MergeInput[j]
          /\ MergeInput[j].title # <<>>
          /\ StrippedTitle(MergeInput[j]) = <<>>
    /\ m_out # <<>>

\* of a set of positions, those with fewer than n of them before
FirstN(positions, n) ==
    {i \in positions : Cardinality({j \in positions : j < i}) < n}

\* C27: the output is the first max_results first occurrences of the
\* input taken as one list in the order of the results argument, in the
\* order they have there.
C27_StableFirstWins ==
    Merged =>
       LET all == MergeInput
           kept == FirstN(FirstOccurrencesOf(all), Max0(m_cap))
       IN /\ Len(m_out) = Cardinality(kept)
          /\ \A n \in 1..Len(m_out) :
                \E i \in kept :
                   /\ Cardinality({j \in kept : j < i}) = n - 1
                   /\ m_out[n] = all[i]

\* C27 witness: two providers, the second repeats a title of the first in
\* another entry; the entry of the first is kept, the other is not.
C27_Witness ==
    /\ Merged
    /\ Len(m_results) = 2
    /\ \E a \in Range(Get(m_results[1], "results", <<>>)) :
          \E b \in Range(Get(m_results[2], "results", <<>>)) :
             /\ a # b
             /\ StrippedTitle(a) = StrippedTitle(b)
             /\ a \in Range(m_out)
             /\ b \notin Range(m_out)

====
